---- MODULE Spec2Model ----
(***************************************************************************)
(* MainThreadWorkspace (mainThreadWorkspace.ts): the table of cancellation *)
(* token sources of the searches in flight, keyed by the request id the    *)
(* extension host chooses, and the operations that install, remove and     *)
(* cancel its entries.                                                     *)
(*                                                                         *)
(* One step of the model is one turn of the main thread's event loop: a    *)
(* call of a $-method or of dispose() up to its return, or the settlement  *)
(* of a backend search promise together with every handler chained on it   *)
(* (TPromise runs the handlers of a settled promise inline). The program   *)
(* keeps nothing of a settled request, so the model keeps the requests in  *)
(* flight and, in out, what the most recent step returned or delivered.    *)
(***************************************************************************)
EXTENDS Integers, Sequences, FiniteSets, TLC

\* ---------------------------------------------------------------- bounds
MaxRequests == 2
MaxId == 2

Ids == 1..MaxId
Ops == {"file", "text", "exists"}

\* ------------------------------------------------------- backend outcomes
\* What ISearchService.search(query, token) settles with: a result, of which
\* $checkExists reads limitHit and the two searches read the matches, or an
\* error.
Errors == {"Canceled", "E1", "E2"}
Pending == [kind |-> "pending", val |-> "-"]
Results(op) == IF op = "exists" THEN {"limitHit", "noLimitHit"} ELSE {"matches"}
Successes(op) == {[kind |-> "success", val |-> v] : v \in Results(op)}
Failures == {[kind |-> "error", val |-> e] : e \in Errors}
Outcomes(op) == Successes(op) \cup Failures

\* The table holds, per id, the token source installed under it, named by
\* the number of the request that created it; None is a missing key.
None == 0

VARIABLES
    activeCancelTokens,  \* _activeCancelTokens: id -> token source or None
    toDispose,           \* _toDispose: the listeners still registered
    inFlight,            \* request -> closure of its pending backend promise
    dispatched,          \* number of requests that reached the backend so far
    cancelled,           \* token sources on which cancel() was called
    out,                 \* what the most recent step returned and delivered
    pc,                  \* the call the main thread is inside of, if any
    delivered,           \* number of progress items the backend delivered
    forwarded,           \* the calls of _proxy.$handleTextSearchResult, in order
    args,                \* arguments and environment of a $startFileSearch call
    query,               \* the query that call built from them
    saved                \* results and answer of the latest $saveAll

\* The state of the search request broker, and with it the position inside a
\* call for the specifications that follow a call statement by statement.
broker == <<activeCancelTokens, toDispose, inFlight, dispatched, cancelled, out>>
\* What the broker does not read: the progress stream of the text searches,
\* the query of a file search, the answer of $saveAll.
stream == <<delivered, forwarded>>
building == <<args, query>>
vars == <<activeCancelTokens, toDispose, inFlight, dispatched, cancelled, out, pc,
          delivered, forwarded, args, query, saved>>

\* Nothing delivered, nothing built, nothing saved yet.
NotYet == [state |-> "not yet"]

Idle == [at |-> "idle", id |-> 0]

Listeners == {"onDidChangeWorkspaceFolders", "onDidChangeWorkbenchState"}

\* ------------------------------------------------------------- helpers
isPromiseCanceledError(err) == err = "Canceled"

\* The error handler without its test for a cancel error.
onSearchError_rethrows(err) == [kind |-> "rejected", val |-> err]

\* The error handler shared by the three dispatches: a cancel error becomes
\* undefined, any other error is re-thrown (TPromise.wrapError).
onSearchError(err) ==
    IF ~isPromiseCanceledError(err)
    THEN [kind |-> "rejected", val |-> err]
    ELSE [kind |-> "resolved", val |-> "undefined"]

\* search(...).then(result => result.results.map(m => m.resource), err => ...)
fileSearchThen(o) ==
    IF o.kind = "success" THEN [kind |-> "resolved", val |-> "uris"]
    ELSE onSearchError(o.val)

\* The handlers of $startTextSearch with every error swallowed.
textSearchThen_swallows(o) ==
    IF o.kind = "success" THEN [kind |-> "resolved", val |-> "null"]
    ELSE [kind |-> "resolved", val |-> "undefined"]

\* search(...).then(() => null, err => ...)
textSearchThen(o) ==
    IF o.kind = "success" THEN [kind |-> "resolved", val |-> "null"]
    ELSE onSearchError(o.val)

\* search(...).then(result => result.limitHit, err => ...)
checkExistsThen(o) ==
    IF o.kind = "success"
    THEN [kind |-> "resolved", val |-> IF o.val = "limitHit" THEN "true" ELSE "false"]
    ELSE onSearchError(o.val)

searchThen(op, o) ==
    CASE op = "file" -> fileSearchThen(o)
      [] op = "text" -> textSearchThen(o)
      [] op = "exists" -> checkExistsThen(o)

\* An install that keeps the entry an id already has.
installToken_keepsFirst(tbl, id, r) ==
    IF tbl[id] # None THEN tbl ELSE [tbl EXCEPT ![id] = r]

\* this._activeCancelTokens[requestId] = tokenSource
installToken(tbl, id, r) == [tbl EXCEPT ![id] = r]

\* A delete that empties the table.
deleteToken_all(tbl, id) == [i \in Ids |-> None]

\* delete this._activeCancelTokens[requestId]
deleteToken(tbl, id) == [tbl EXCEPT ![id] = None]

\* onDone without its delete.
onDone_keepsEntry(tbl, id) == tbl

\* const onDone = () => { tokenSource.dispose(); delete this._activeCancelTokens[requestId]; }
\* The token source disposed is the settling request's own, which no later
\* step reads; the delete is by requestId, whatever token source is there.
onDone(tbl, id) == deleteToken(tbl, id)

\* The token source installed only once search has settled, that is, not by
\* the time the dispatch returns.
startSearchTokens_late(tbl, id, r, settledNow) == tbl

\* $startFileSearch / $startTextSearch from the backend call to the return:
\* the then-handlers of search (inline when the backend promise is already
\* settled), the installation of the token source, then search.then(onDone, onDone),
\* which runs onDone inline when search is already settled.
startSearchTokens(tbl, id, r, settledNow) ==
    IF settledNow THEN onDone(installToken(tbl, id, r), id)
    ELSE installToken(tbl, id, r)

\* $checkExists from the backend call to the return: the then-handlers delete
\* the entry (inline when the backend promise is already settled), and the
\* token source is installed after them.
checkExistsTokens(tbl, id, r, settledNow) ==
    IF settledNow THEN installToken(deleteToken(tbl, id), id, r)
    ELSE installToken(tbl, id, r)

dispatchTokens(op, tbl, id, r, settledNow) ==
    IF op = "exists" THEN checkExistsTokens(tbl, id, r, settledNow)
    ELSE startSearchTokens(tbl, id, r, settledNow)

\* The settlement of a pending backend promise: onDone for the two searches,
\* the delete inside the handlers for $checkExists.
settleTokens(tbl, op, id) ==
    IF op = "exists" THEN deleteToken(tbl, id) ELSE onDone(tbl, id)

\* ------------------------------------------------------ requests in flight
InFlight == DOMAIN inFlight
SameId(id) == {q \in InFlight : inFlight[q].id = id}

\* The closure of a pending request: its operation and requestId, and three
\* facts of its history:
\* cancelSearched - $cancelSearch took this request's token source;
\* start - how its id stood when it was dispatched: "alone" when no request
\*         was in flight under the id, "fresh" when every request in flight
\*         under the id had been cancelled by $cancelSearch, else "shared";
\* reused - a later request was dispatched under its id while it was in flight.
NewRequest(op, id) ==
    [op |-> op, id |-> id, cancelSearched |-> FALSE, reused |-> FALSE,
     start |-> IF SameId(id) = {} THEN "alone"
               ELSE IF \A q \in SameId(id) : inFlight[q].cancelSearched THEN "fresh"
               ELSE "shared"]

\* What a step returns (ret) and, when a backend promise settles in it, what
\* the backend delivered and what the promise of the dispatch settled with.
\* backend and caller are Pending in a step in which no promise settles.
Out(retval, op, o) ==
    [ret |-> retval, backend |-> o,
     caller |-> IF o = Pending THEN Pending ELSE searchThen(op, o)]

\* ------------------------------------------------------------- actions
Init ==
    /\ activeCancelTokens = [id \in Ids |-> None]
    /\ toDispose = Listeners
    /\ inFlight = <<>>
    /\ dispatched = 0
    /\ cancelled = {}
    /\ out = Out("void", "-", Pending)
    /\ pc = Idle
    /\ delivered = 0
    /\ forwarded = <<>>
    /\ args = NotYet
    /\ query = NotYet
    /\ saved = NotYet

\* dispose() leaving its loop after the first entry.
disposeCancels_first(tbl) ==
    IF \E i \in Ids : tbl[i] # None
    THEN {tbl[CHOOSE i \in Ids : tbl[i] # None /\ \A j \in Ids : tbl[j] # None => i <= j]}
    ELSE {}

\* dispose(): the listeners are disposed and every token source of the table
\* is cancelled; the table itself is left as it is.
disposeCancels(tbl) == {tbl[id] : id \in {i \in Ids : tbl[i] # None}}

dispose ==
    /\ toDispose' = {}
    /\ cancelled' = cancelled \cup disposeCancels(activeCancelTokens)
    /\ out' = Out("void", "-", Pending)
    /\ UNCHANGED <<activeCancelTokens, inFlight, dispatched>>

\* The part the three dispatches share, from the backend call on: now is
\* Pending when search() returns a pending promise, and the outcome when the
\* promise it returns is already settled.
dispatch(op, id, now) ==
    /\ dispatched < MaxRequests
    /\ LET r == dispatched + 1
           c == NewRequest(op, id) IN
       /\ dispatched' = r
       /\ activeCancelTokens' = dispatchTokens(op, activeCancelTokens, id, r, now # Pending)
       /\ inFlight' =
            IF now = Pending
            THEN [q \in InFlight \cup {r} |->
                    IF q = r THEN c
                    ELSE IF inFlight[q].id = id THEN [inFlight[q] EXCEPT !.reused = TRUE]
                    ELSE inFlight[q]]
            ELSE [q \in InFlight |->
                    IF inFlight[q].id = id THEN [inFlight[q] EXCEPT !.reused = TRUE]
                    ELSE inFlight[q]]
       /\ out' = Out("promise", op, now)
    /\ UNCHANGED <<toDispose, cancelled>>

\* $startFileSearch searching the folder it is given although the workspace
\* has no folder.
returnsEarly_unlessFolder(noFolders, includeFolder) ==
    noFolders /\ includeFolder = "absent"

\* Lines 117-131: whether $startFileSearch returns before it builds a query.
\* noFolders is !workspace.folders.length as the context service reports it
\* at the call; includeFolder is "absent" when the argument is no string.
IncludeFolders == {"absent", "path"}
returnsEarly(noFolders, includeFolder) == noFolders

\* $startFileSearch(includePattern, includeFolder, exclude, maxResults, requestId)
startFileSearch(noFolders, includeFolder, id, now) ==
    IF returnsEarly(noFolders, includeFolder)
    THEN /\ out' = Out("undefined", "file", Pending)
         /\ UNCHANGED <<activeCancelTokens, toDispose, inFlight, dispatched, cancelled>>
    ELSE dispatch("file", id, now)

\* $startTextSearch(pattern, options, requestId)
startTextSearch(id, now) == dispatch("text", id, now)

\* $checkExists(query, requestId)
checkExists(id, now) == dispatch("exists", id, now)

\* A settlement that hands undefined to the caller of a request for which
\* $cancelSearch was called, whatever the backend delivered.
settle_dropsCancelled(r, o) ==
    /\ r \in InFlight
    /\ o \in Outcomes(inFlight[r].op)
    /\ inFlight' = [q \in InFlight \ {r} |-> inFlight[q]]
    /\ activeCancelTokens' = settleTokens(activeCancelTokens, inFlight[r].op, inFlight[r].id)
    /\ out' = [Out("-", inFlight[r].op, o) EXCEPT
                 !.caller = IF inFlight[r].cancelSearched
                            THEN [kind |-> "resolved", val |-> "undefined"] ELSE @]
    /\ UNCHANGED <<toDispose, dispatched, cancelled>>

\* The backend promise of request r settles with outcome o; the handlers
\* chained on it run.
settle(r, o) ==
    /\ r \in InFlight
    /\ o \in Outcomes(inFlight[r].op)
    /\ inFlight' = [q \in InFlight \ {r} |-> inFlight[q]]
    /\ activeCancelTokens' = settleTokens(activeCancelTokens, inFlight[r].op, inFlight[r].id)
    /\ out' = Out("-", inFlight[r].op, o)
    /\ UNCHANGED <<toDispose, dispatched, cancelled>>

\* $cancelSearch without its delete.
cancelSearchTokens_keepsEntry(tbl, id) == tbl

\* $cancelSearch answering false when there is nothing to cancel.
cancelSearchReturn_false(tbl, id) == IF tbl[id] # None THEN "true" ELSE "false"

\* $cancelSearch(requestId): the table after it, the token sources it
\* cancels, and what it returns.
cancelSearchTokens(tbl, id) == IF tbl[id] # None THEN deleteToken(tbl, id) ELSE tbl
cancelSearchCancels(tbl, id) == IF tbl[id] # None THEN {tbl[id]} ELSE {}
cancelSearchReturn(tbl, id) == IF tbl[id] # None THEN "true" ELSE "undefined"

cancelSearch(id) ==
    /\ activeCancelTokens' = cancelSearchTokens(activeCancelTokens, id)
    /\ cancelled' = cancelled \cup cancelSearchCancels(activeCancelTokens, id)
    /\ out' = Out(cancelSearchReturn(activeCancelTokens, id), "-", Pending)
    /\ inFlight' = [q \in InFlight |->
                      IF q = activeCancelTokens[id]
                      THEN [inFlight[q] EXCEPT !.cancelSearched = TRUE] ELSE inFlight[q]]
    /\ UNCHANGED <<toDispose, dispatched>>

\* Every call runs to its return within one step.
Next ==
    \/ dispose /\ UNCHANGED <<pc, stream, building, saved>>
    \/ \E includeFolder \in IncludeFolders, id \in Ids :
          startFileSearch(TRUE, includeFolder, id, Pending) /\ UNCHANGED <<pc, stream, building, saved>>
    \/ \E includeFolder \in IncludeFolders, id \in Ids, now \in {Pending} \cup Outcomes("file") :
          startFileSearch(FALSE, includeFolder, id, now) /\ UNCHANGED <<pc, stream, building, saved>>
    \/ \E id \in Ids, now \in {Pending} \cup Outcomes("text") :
          startTextSearch(id, now) /\ UNCHANGED <<pc, stream, building, saved>>
    \/ \E id \in Ids, now \in {Pending} \cup Outcomes("exists") :
          checkExists(id, now) /\ UNCHANGED <<pc, stream, building, saved>>
    \/ \E r \in 1..MaxRequests, o \in Outcomes("file") \cup Outcomes("exists") :
          settle(r, o) /\ UNCHANGED <<pc, stream, building, saved>>
    \/ \E id \in Ids : cancelSearch(id) /\ UNCHANGED <<pc, stream, building, saved>>

Spec == Init /\ [][Next]_vars

\* ------------------------------------------- $startFileSearch by statement
\* Lines 161-162 up to the call: the token source is created and
\* _searchService.search(query, tokenSource.token) is entered.
fileSearchCall(id) ==
    /\ pc = Idle
    /\ dispatched < MaxRequests
    /\ pc' = [at |-> "search", id |-> id]
    /\ UNCHANGED <<broker, stream, building, saved>>

\* search() returns, with a promise that is pending or already settled, and
\* lines 162-178 run: the handlers are chained, the token source is
\* installed, onDone is attached and the promise is returned.
fileSearchReturn(now) ==
    /\ pc.at = "search"
    /\ dispatch("file", pc.id, now)
    /\ pc' = Idle
    /\ UNCHANGED <<stream, building, saved>>

\* $startFileSearch in two steps, every other call in one, between two calls
\* of $startFileSearch.
NextSteps ==
    \/ \E id \in Ids : fileSearchCall(id)
    \/ \E now \in {Pending} \cup Outcomes("file") : fileSearchReturn(now)
    \/ pc = Idle /\ dispose /\ UNCHANGED <<pc, stream, building, saved>>
    \/ \E includeFolder \in IncludeFolders, id \in Ids :
          pc = Idle /\ startFileSearch(TRUE, includeFolder, id, Pending) /\ UNCHANGED <<pc, stream, building, saved>>
    \/ \E id \in Ids, now \in {Pending} \cup Outcomes("text") :
          pc = Idle /\ startTextSearch(id, now) /\ UNCHANGED <<pc, stream, building, saved>>
    \/ \E id \in Ids, now \in {Pending} \cup Outcomes("exists") :
          pc = Idle /\ checkExists(id, now) /\ UNCHANGED <<pc, stream, building, saved>>
    \/ \E r \in 1..MaxRequests, o \in Outcomes("file") \cup Outcomes("exists") :
          pc = Idle /\ settle(r, o) /\ UNCHANGED <<pc, stream, building, saved>>
    \/ \E id \in Ids : pc = Idle /\ cancelSearch(id) /\ UNCHANGED <<pc, stream, building, saved>>

SpecSteps == Init /\ [][NextSteps]_vars

\* ---------------------------------------------------------------- claims
NoEntries == [id \in Ids |-> None]
Canceled == [kind |-> "error", val |-> "Canceled"]
ResolvedUndefined == [kind |-> "resolved", val |-> "undefined"]

\* Request r's backend promise settles in the step.
Settles(r) == r \in InFlight /\ r \notin InFlight'

\* C1: once the backend call of a $startFileSearch or $startTextSearch under
\* id has settled, whether later or already at the return of search(), the
\* table has no entry for id; and a step installs no token source but that of
\* a request it dispatches and leaves in flight (or of a $checkExists), so a
\* settled search never comes back into the table.
C1_SearchSettledNoEntry ==
    [][ /\ \A r \in InFlight :
              Settles(r) /\ inFlight[r].op \in {"file", "text"}
              => activeCancelTokens'[inFlight[r].id] = None
        /\ \A id \in Ids, now \in Outcomes("file") :
              (startFileSearch(FALSE, "absent", id, now) \/ startTextSearch(id, now))
              => activeCancelTokens'[id] = None
        /\ \A id \in Ids :
              activeCancelTokens'[id] \notin {None, activeCancelTokens[id]}
              => /\ activeCancelTokens'[id] = dispatched + 1
                 /\ dispatched' = dispatched + 1
                 /\ \/ dispatched' \in InFlight'
                    \/ \E now \in Outcomes("exists") : checkExists(id, now)
      ]_vars

\* Every dispatched request was a search that settled successfully, the last
\* one a file search that settled after its dispatch, and the table is empty.
C1_Witness ==
    /\ dispatched = MaxRequests
    /\ InFlight = {}
    /\ out.ret = "-"
    /\ out.caller = [kind |-> "resolved", val |-> "uris"]
    /\ activeCancelTokens = NoEntries

\* C2: once the backend call of a $checkExists under id has settled, whether
\* later or already at the return of search(), the table has no entry for id.
C2_CheckExistsSettledNoEntry ==
    [][ /\ \A r \in InFlight :
              Settles(r) /\ inFlight[r].op = "exists"
              => activeCancelTokens'[inFlight[r].id] = None
        /\ \A id \in Ids, now \in Outcomes("exists") :
              checkExists(id, now) => activeCancelTokens'[id] = None
      ]_vars

\* C3: $cancelSearch(id) with an entry for id removes that entry and no
\* other, calls cancel() on the token source of the entry and on no other,
\* and returns true.
C3_CancelSearchHit ==
    [][ \A id \in Ids :
          cancelSearch(id) /\ activeCancelTokens[id] # None
          => /\ activeCancelTokens' = [activeCancelTokens EXCEPT ![id] = None]
             /\ cancelled' = cancelled \cup {activeCancelTokens[id]}
             /\ out'.ret = "true"
      ]_vars

\* $cancelSearch has just returned true for a request that is still in flight.
C3_Witness ==
    /\ out.ret = "true"
    /\ \E r \in InFlight :
          /\ inFlight[r].cancelSearched
          /\ r \in cancelled
          /\ activeCancelTokens[inFlight[r].id] = None

\* C4: $cancelSearch(id) without an entry for id returns undefined, cancels
\* nothing and leaves the table as it is; so does a $cancelSearch(id) that
\* follows one that returned true.
C4_CancelSearchMiss ==
    [][ \A id \in Ids :
          /\ cancelSearch(id) /\ activeCancelTokens[id] = None
             => /\ out'.ret = "undefined"
                /\ cancelled' = cancelled
                /\ activeCancelTokens' = activeCancelTokens
          /\ cancelSearch(id) /\ activeCancelTokens[id] # None
             => /\ cancelSearchReturn(activeCancelTokens', id) = "undefined"
                /\ cancelSearchCancels(activeCancelTokens', id) = {}
                /\ cancelSearchTokens(activeCancelTokens', id) = activeCancelTokens'
      ]_vars

\* $cancelSearch has returned undefined while a request whose token source an
\* earlier $cancelSearch took is still in flight and nothing is registered.
C4_Witness ==
    /\ out.ret = "undefined"
    /\ out.backend = Pending
    /\ activeCancelTokens = NoEntries
    /\ \E r \in InFlight : inFlight[r].cancelSearched

\* C5: a request whose token source $cancelSearch took while it was in
\* flight, and whose backend then rejects with a cancel error, resolves with
\* undefined; and from the $cancelSearch on the table has no entry for its
\* id until a dispatch under that id installs one.
C5_CancelledResolvesUndefined ==
    [][ /\ \A r \in InFlight :
              Settles(r) /\ inFlight[r].cancelSearched /\ out'.backend = Canceled
              => out'.caller = ResolvedUndefined
        /\ \A id \in Ids :
              cancelSearch(id) /\ activeCancelTokens[id] \in InFlight
              => activeCancelTokens'[id] = None
        /\ \A id \in Ids :
              activeCancelTokens[id] = None /\ activeCancelTokens'[id] # None
              => \E op \in Ops : \E now \in {Pending} \cup Outcomes(op) : dispatch(op, id, now)
      ]_vars

\* The one request dispatched was cancelled by $cancelSearch (dispose() was
\* never called), its backend then rejected with a cancel error and its
\* promise resolved with undefined.
C5_Witness ==
    /\ dispatched = 1
    /\ InFlight = {}
    /\ cancelled = {1}
    /\ toDispose = Listeners
    /\ out.ret = "-"
    /\ out.backend = Canceled
    /\ out.caller = ResolvedUndefined
    /\ activeCancelTokens = NoEntries

\* C6: whenever a backend promise settles, a cancel error becomes a
\* resolution with undefined, any other error becomes a rejection with that
\* same error, and a success becomes a resolution.
C6_OutcomeOfBackendOutcome ==
    /\ out.backend = Pending <=> out.caller = Pending
    /\ out.backend = Canceled => out.caller = ResolvedUndefined
    /\ out.backend.kind = "error" /\ out.backend # Canceled
       => out.caller = [kind |-> "rejected", val |-> out.backend.val]
    /\ out.backend.kind = "success" => out.caller.kind = "resolved"

\* A backend promise has rejected with an error that is no cancel error, for
\* a request that $cancelSearch had not been called for.
C6_Witness ==
    /\ out.backend = [kind |-> "error", val |-> "E2"]
    /\ out.caller = [kind |-> "rejected", val |-> "E2"]
    /\ cancelled = {}

\* C7: a request in flight whose id no other request in flight has shared,
\* and for which $cancelSearch has not been called, has its token source in
\* the table from the return of its dispatch on; a $cancelSearch(id) for it
\* returns true and cancels its token source.
Tracked(r) == activeCancelTokens[inFlight[r].id] = r
Unshared(r) == inFlight[r].start = "alone" /\ ~inFlight[r].reused

C7_RegisteredWhileInFlight ==
    /\ [](\A r \in InFlight : Unshared(r) /\ ~inFlight[r].cancelSearched => Tracked(r))
    /\ [][ \A r \in InFlight :
             Unshared(r) /\ ~inFlight[r].cancelSearched /\ cancelSearch(inFlight[r].id)
             => out'.ret = "true" /\ r \in cancelled'
         ]_vars

\* A dispatch has just returned and its request is in flight and registered.
C7_Witness ==
    /\ out.ret = "promise"
    /\ out.backend = Pending
    /\ dispatched \in InFlight
    /\ Unshared(dispatched)
    /\ Tracked(dispatched)

\* C8: a request dispatched under an id that was unregistered then (every
\* earlier request under it had settled or had been cancelled by
\* $cancelSearch) keeps its token source in the table until it settles, is
\* cancelled, or the id is dispatched again.
C8_FreshCycleStaysRegistered ==
    \A r \in InFlight :
        /\ inFlight[r].start \in {"alone", "fresh"}
        /\ ~inFlight[r].reused
        /\ ~inFlight[r].cancelSearched
        => Tracked(r)

\* C9: when dispose() returns, cancel() has been called on the token source
\* of every entry the table had when it was called.
C9_DisposeCancelsAll ==
    [][ dispose => \A id \in Ids :
                      activeCancelTokens[id] # None => activeCancelTokens[id] \in cancelled'
      ]_vars

\* dispose() has returned with every id registered, none cancelled before.
C9_Witness ==
    /\ toDispose = {}
    /\ out.ret = "void"
    /\ \A id \in Ids : activeCancelTokens[id] \in InFlight
    /\ \A r \in InFlight : ~inFlight[r].cancelSearched /\ r \in cancelled

\* C10: once dispose() has been called, no step adds an entry to the table.
C10_NoRegistrationAfterDispose ==
    [][ toDispose = {} => \A id \in Ids :
                             activeCancelTokens[id] = None => activeCancelTokens'[id] = None
      ]_vars

\* C11: while $startFileSearch is inside the call of search(), the table
\* already holds, under requestId, the token source created for the request.
C11_RegisteredAtSearchCall ==
    pc.at = "search" => activeCancelTokens[pc.id] = dispatched + 1

\* C12: $startFileSearch on a workspace without folders returns undefined,
\* creates no token source, starts no backend search and leaves the table
\* and the cancelled token sources as they are, whatever includeFolder and
\* requestId are.
C12_NoFoldersNoSearch ==
    [][ \A includeFolder \in IncludeFolders, id \in Ids :
          startFileSearch(TRUE, includeFolder, id, Pending)
          => /\ out'.ret = "undefined"
             /\ out'.backend = Pending
             /\ dispatched' = dispatched
             /\ inFlight' = inFlight
             /\ activeCancelTokens' = activeCancelTokens
             /\ cancelled' = cancelled
      ]_vars

\* $startFileSearch has returned undefined while a request is registered and
\* in flight, and no $cancelSearch has been answered with true.
C12_Witness ==
    /\ out.ret = "undefined"
    /\ cancelled = {}
    /\ \E r \in InFlight : Tracked(r)

\* ------------------------------------------- $startTextSearch, progress
MaxProgress == 2

\* What a progress item has in its matches field: nothing (a progress message
\* or a file without text matches), an empty array, or an array of matches.
Matches == {"undefined", "empty", "some"}

\* if (p.matches): an array is truthy in JavaScript, empty or not.
truthy(m) == m # "undefined"

\* The n-th item the backend delivers.
ProgressItem(n, m) == [n |-> n, matches |-> m]

\* onProgress of lines 188-192: the calls of $handleTextSearchResult after the
\* backend handed p to the callback of the request dispatched under id.
onProgressForwards(fwd, p, id) ==
    IF truthy(p.matches) THEN Append(fwd, [p |-> p, requestId |-> id]) ELSE fwd

\* The backend delivers a progress item to the callback of text search r.
onProgress(r, m) ==
    /\ r \in InFlight
    /\ inFlight[r].op = "text"
    /\ delivered < MaxProgress
    /\ delivered' = delivered + 1
    /\ forwarded' = onProgressForwards(forwarded, ProgressItem(delivered + 1, m), inFlight[r].id)
    /\ out' = Out("void", "-", Pending)
    /\ UNCHANGED <<activeCancelTokens, toDispose, inFlight, dispatched, cancelled>>

\* Text searches with their progress, their settlement and $cancelSearch.
NextText ==
    \/ \E id \in Ids, now \in {Pending} \cup Outcomes("text") :
          startTextSearch(id, now) /\ UNCHANGED <<pc, stream, building, saved>>
    \/ \E r \in 1..MaxRequests, m \in Matches :
          onProgress(r, m) /\ UNCHANGED <<pc, building, saved>>
    \/ \E r \in 1..MaxRequests, o \in Outcomes("text") :
          settle(r, o) /\ UNCHANGED <<pc, stream, building, saved>>
    \/ \E id \in Ids : cancelSearch(id) /\ UNCHANGED <<pc, stream, building, saved>>

SpecText == Init /\ [][NextText]_vars

\* C13: a progress item of a text search is forwarded, as the last call of
\* $handleTextSearchResult so far and with the requestId of its dispatch, if
\* it contains matches, and is not forwarded if it contains none; a text
\* search whose backend promise succeeds resolves with null.
C13_ProgressForwardedIffMatches ==
    [][ /\ \A r \in 1..MaxRequests, m \in Matches :
              onProgress(r, m)
              => forwarded' =
                   IF m = "some"
                   THEN Append(forwarded, [p |-> ProgressItem(delivered + 1, m),
                                           requestId |-> inFlight[r].id])
                   ELSE forwarded
        /\ \A r \in InFlight :
              Settles(r) /\ inFlight[r].op = "text" /\ out'.backend.kind = "success"
              => out'.caller = [kind |-> "resolved", val |-> "null"]
      ]_vars

\* ------------------------------------------ $startFileSearch, the query
MaxFolders == 2

\* Paths: those of the folders a workspace can have, and one outside of them.
Folders == 1..MaxFolders
Path(f) == ToString(f)
Paths == {Path(f) : f \in 0..MaxFolders}

\* URI.file(path)
URIfile(path) == [scheme |-> "file", path |-> path]

\* workspace.folders: the folders of the workspace, each with its uri, in
\* their order and without repetition.
WorkspaceFolders ==
    LET seqs == UNION {[1..n -> Folders] : n \in 0..MaxFolders} IN
    {[i \in DOMAIN s |-> [uri |-> URIfile(Path(s[i]))]] :
        s \in {t \in seqs : \A i, j \in DOMAIN t : t[i] = t[j] => i = j}}

\* The search section of the configuration of every resource, and
\* getValue<ISearchConfiguration>({ resource }).
SearchConfigurations == [Paths -> [useRipgrep : BOOLEAN, followSymlinks : BOOLEAN]]
getValue(cfg, resource) == [search |-> cfg[resource.path]]

\* Argument values, with what typeof says of them.
Undefined == [type |-> "undefined", val |-> "-"]
False == [type |-> "boolean", val |-> "false"]
String(str) == [type |-> "string", val |-> str]
Globs == {"", "*.log"}

\* A call of $startFileSearch: its arguments, and the workspace and the
\* configuration it finds.
FileArgs ==
    [folders : WorkspaceFolders,
     cfg : SearchConfigurations,
     includePattern : {Undefined, String("*.ts")},
     includeFolder : {Undefined} \cup {String(path) : path \in Paths},
     exclude : {Undefined, False} \cup {String(g) : g \in Globs},
     maxResults : {"maxResults"}]

\* Lines 122-127
folderQueriesOf(folders, includeFolder) ==
    IF includeFolder.type = "string"
    THEN <<[folder |-> URIfile(includeFolder.val)]>>
    ELSE [i \in DOMAIN folders |-> [folder |-> folders[i].uri]]

\* Lines 133-136
useRipgrepOf(cfg, folderQueries) ==
    \A i \in DOMAIN folderQueries : getValue(cfg, folderQueries[i].folder).search.useRipgrep

\* ignoreSymlinks set as soon as one folder does not follow symlinks.
ignoreSymlinksOf_some(cfg, folderQueries) ==
    \E i \in DOMAIN folderQueries : ~getValue(cfg, folderQueries[i].folder).search.followSymlinks

\* Lines 138-141
ignoreSymlinksOf(cfg, folderQueries) ==
    \A i \in DOMAIN folderQueries : ~getValue(cfg, folderQueries[i].folder).search.followSymlinks

\* disregardExcludeSettings set for every falsy argument.
disregardExcludes_falsy(exclude) == exclude.type # "string" \/ exclude.val = ""

\* Line 147: excludePatternOrDisregardExcludes === false
disregardExcludes(exclude) == exclude = False

\* Lines 151-157: query.includePattern and query.excludePattern are set when
\* their argument is a string.
withPattern(q, field, arg) ==
    IF arg.type = "string" THEN (field :> (arg.val :> TRUE)) @@ q ELSE q

\* What lines 117-120 return.
ReturnedUndefined == [state |-> "undefined"]

\* Lines 117-157: the query $startFileSearch builds, unless it returns first.
fileQuery(a) ==
    IF Len(a.folders) = 0 THEN ReturnedUndefined
    ELSE LET folderQueries == folderQueriesOf(a.folders, a.includeFolder)
             q == [folderQueries |-> folderQueries,
                   type |-> "File",
                   maxResults |-> a.maxResults,
                   disregardExcludeSettings |-> disregardExcludes(a.exclude),
                   useRipgrep |-> useRipgrepOf(a.cfg, folderQueries),
                   ignoreSymlinks |-> ignoreSymlinksOf(a.cfg, folderQueries)]
         IN withPattern(withPattern(q, "includePattern", a.includePattern),
                        "excludePattern", a.exclude)

\* A call of $startFileSearch, before its first line.
InitQuery ==
    /\ activeCancelTokens = [id \in Ids |-> None]
    /\ toDispose = Listeners
    /\ inFlight = <<>>
    /\ dispatched = 0
    /\ cancelled = {}
    /\ out = Out("void", "-", Pending)
    /\ pc = Idle
    /\ delivered = 0
    /\ forwarded = <<>>
    /\ args \in FileArgs
    /\ query = NotYet
    /\ saved = NotYet

\* The call reaches line 158, or has returned undefined.
buildQuery ==
    /\ query = NotYet
    /\ query' = fileQuery(args)
    /\ UNCHANGED <<broker, pc, stream, args, saved>>

NextQuery == buildQuery

SpecQuery == InitQuery /\ [][NextQuery]_vars

Built == "folderQueries" \in DOMAIN query

Scope ==
    IF args.includeFolder.type = "string" THEN {args.includeFolder.val}
    ELSE {args.folders[i].uri.path : i \in DOMAIN args.folders}

\* C15: ignoreSymlinks is set in the query exactly if no folder in scope
\* follows symlinks, and useRipgrep exactly if every folder in scope has it.
C15_UnanimousFolderOptions ==
    Built =>
      /\ query.ignoreSymlinks <=> \A path \in Scope : ~args.cfg[path].followSymlinks
      /\ query.useRipgrep <=> \A path \in Scope : args.cfg[path].useRipgrep

\* A query over two workspace folders of which one follows symlinks and one
\* does not have ripgrep.
C15_Witness ==
    /\ Built
    /\ Cardinality(Scope) = 2
    /\ \E path \in Scope : args.cfg[path].followSymlinks
    /\ \E path \in Scope : ~args.cfg[path].followSymlinks
    /\ \E path \in Scope : ~args.cfg[path].useRipgrep
    /\ ~query.ignoreSymlinks /\ ~query.useRipgrep

\* --------------------------------------------------------------- $saveAll
MaxFiles == 4

\* each.success of a per-file result: true, false, missing, or a value that
\* is truthy without being true.
SuccessValues == {"true", "false", "undefined", "1"}
SaveResults == UNION {[1..n -> [success : SuccessValues]] : n \in 0..MaxFiles}

\* $saveAll taking every truthy success for a saved file.
saveAllAnswer_truthy(results) ==
    \A i \in DOMAIN results : results[i].success \in {"true", "1"}

\* result.results.every(each => each.success === true)
saveAllAnswer(results) ==
    \A i \in DOMAIN results : results[i].success = "true"

\* $saveAll(includeUntitled), the save service resolving with results.
saveAll(results) ==
    /\ saved' = [results |-> results, ret |-> saveAllAnswer(results)]
    /\ UNCHANGED <<broker, pc, stream, building>>

NextSave == \E results \in SaveResults : saveAll(results)

SpecSave == Init /\ [][NextSave]_vars

\* C16: $saveAll answers true exactly if no per-file result has a success
\* other than true; it answers true for an empty list of results.
C16_SaveAllEverySuccess ==
    saved # NotYet =>
      /\ saved.ret <=> ~ \E i \in DOMAIN saved.results :
                           saved.results[i].success \in SuccessValues \ {"true"}
      /\ Len(saved.results) = 0 => saved.ret

\* $saveAll has answered false for a saved file followed by a result
\* without success field.
C16_Witness ==
    /\ saved # NotYet
    /\ Len(saved.results) = 2
    /\ saved.results[1].success = "true"
    /\ saved.results[2].success = "undefined"
    /\ ~saved.ret

\* ------------------------------------------------- one id, several requests
\* C17: a dispatch under an id that has an entry returns its promise as any
\* other; when its backend promise is pending at the return, the entry of the
\* id then holds the token source of this dispatch, no other entry has
\* changed and no token source has been cancelled.  A $cancelSearch of an id
\* with an entry finds there the latest request dispatched under the id and
\* cancels the token source of that request only.
C17_LastWriteWins ==
    [][ /\ \A op \in Ops, id \in Ids :
              activeCancelTokens[id] # None /\ dispatch(op, id, Pending)
              => /\ out'.ret = "promise"
                 /\ activeCancelTokens' = [activeCancelTokens EXCEPT ![id] = dispatched + 1]
                 /\ cancelled' = cancelled
        /\ \A id \in Ids :
              activeCancelTokens[id] # None /\ cancelSearch(id)
              => /\ \A q \in InFlight : inFlight[q].id = id => q <= activeCancelTokens[id]
                 /\ cancelled' = cancelled \cup {activeCancelTokens[id]}
      ]_vars

\* Two requests of one id are in flight, the second dispatched over the entry
\* of the first, and $cancelSearch has cancelled the second and not the first.
C17_Witness ==
    /\ out.ret = "true"
    /\ \E q, r \in InFlight :
          /\ q < r
          /\ inFlight[q].id = inFlight[r].id
          /\ inFlight[r].start = "shared"
          /\ inFlight[r].cancelSearched
          /\ cancelled = {r}
          /\ activeCancelTokens[inFlight[r].id] = None

\* C18: $cancelSearch settles no promise: the requests in flight before it
\* are in flight after it, and a request leaves only in a step in which its
\* backend promise settles.  When the backend promise of a request succeeds
\* after $cancelSearch was called for it, the caller gets the result of a
\* success: the uris of a file search, null of a text search, limitHit of
\* $checkExists.
C18_CancelIsCooperative ==
    [][ /\ \A id \in Ids :
              cancelSearch(id)
              => /\ DOMAIN inFlight' = DOMAIN inFlight
                 /\ out'.backend = Pending
                 /\ out'.caller = Pending
        /\ \A r \in InFlight :
              Settles(r)
              => /\ out'.backend # Pending
                 /\ inFlight[r].cancelSearched /\ out'.backend.kind = "success"
                    => /\ out'.caller.kind = "resolved"
                       /\ out'.caller.val =
                            CASE inFlight[r].op = "file" -> "uris"
                              [] inFlight[r].op = "text" -> "null"
                              [] inFlight[r].op = "exists" ->
                                   IF out'.backend.val = "limitHit" THEN "true" ELSE "false"
      ]_vars

\* A file search for which $cancelSearch had been called, and no dispose, has
\* delivered its uris.
C18_Witness ==
    /\ out.backend = [kind |-> "success", val |-> "matches"]
    /\ out.caller = [kind |-> "resolved", val |-> "uris"]
    /\ cancelled # {}
    /\ toDispose = Listeners
    /\ dispatched = 1
    /\ inFlight = <<>>

\* C19: no entry of the table holds a token source on which cancel() has been
\* called.
C19_TableHoldsUncancelled ==
    \A id \in Ids :
        activeCancelTokens[id] # None => activeCancelTokens[id] \notin cancelled

\* ------------------------------------------------------------ distinct ids
\* A step that is a dispatch under id i, a $cancelSearch(i), or the
\* settlement of a request dispatched under i.
OperatesOn(i) ==
    \/ dispatched' # dispatched /\ \E op \in Ops : dispatch(op, i, out'.backend)
    \/ cancelSearch(i)
    \/ \E r \in InFlight : inFlight[r].id = i /\ Settles(r)

\* A step that leaves id j with the entry it had, and leaves the token
\* sources of j, that of the entry and those of the requests in flight,
\* cancelled or not as they were.
Undisturbed(j) ==
    /\ activeCancelTokens'[j] = activeCancelTokens[j]
    /\ activeCancelTokens[j] \in cancelled' <=> activeCancelTokens[j] \in cancelled
    /\ \A q \in InFlight : inFlight[q].id = j => (q \in cancelled' <=> q \in cancelled)

\* C20: a dispatch under an id, a $cancelSearch of it and the settlement of
\* a request dispatched under it leave every other id undisturbed: a step
\* that disturbs id j is no operation on an id other than j.
C20_OtherIdsUntouched ==
    [][ \A j \in Ids :
          ~Undisturbed(j) => \A i \in Ids \ {j} : ~OperatesOn(i)
      ]_vars

\* $cancelSearch has been answered with true while another id has its entry,
\* with a token source that is in flight and not cancelled.
C20_Witness ==
    /\ out.ret = "true"
    /\ cancelled # {}
    /\ toDispose = Listeners
    /\ \E j \in Ids :
          /\ activeCancelTokens[j] \in InFlight
          /\ activeCancelTokens[j] \notin cancelled

====
